---- MODULE Spec2Model ----
(***************************************************************************)
(* Session lifecycle engine of the Party Up! LFG bot (src/index.js).       *)
(*                                                                         *)
(* The program is a single Node.js process.  A handler runs without        *)
(* interruption until it reaches an `await` of a real external call        *)
(* (Discord API, database); there other handlers, timer callbacks and the  *)
(* sweeps may run.  Every handler is therefore a sequence of atomic        *)
(* segments, one action per segment; a handler in flight is a record in    *)
(* the set `tasks` whose pc names the await it is suspended at.            *)
(*                                                                         *)
(* A database call takes effect when the suspended handler resumes (any    *)
(* moment after the call was issued); the values written are the ones      *)
(* captured when the call was issued.                                      *)
(*                                                                         *)
(* Time is counted in minutes.  Handlers finish within the minute they     *)
(* started in: the clock advances only while no handler is in flight, and  *)
(* only once the timer callbacks and the sweep due in the current minute   *)
(* have run.  It advances to the next minute in which something is due.    *)
(*                                                                         *)
(* A run handles at most MaxRequests commands, button presses and         *)
(* restarts of the process; handlers overlap during the first              *)
(* OverlapRequests of them.  The calls that create a session may throw.    *)
(*                                                                         *)
(* Spec is the whole program.  LoneSpec is the program when sessions are   *)
(* created and left alone, with the callbacks of the event loop eventually *)
(* run.                                                                    *)
(***************************************************************************)
EXTENDS Integers, Sequences, FiniteSets, TLC

\* ---------------------------------------------------------------- bounds
NumUsers == 3
MaxSessions == 2
MaxTasks == 2
MaxTime == 22
MaxRequests == 5
OverlapRequests == 3
\* the largest team explored (the players option accepts up to 10)
MaxPlayers == 2
\* the calls that create a session may throw for the first MaxFailing
\* sessions of a run
MaxFailing == 1
\* the minutes of the process that the runs of the Guard alone cover
GuardMaxTime == 7

\* ------------------------------------------------------ program constants
MinPlayers == 2
twentyMinutes == 20
twoMinutes == 2
ConfirmTimerDelay == 5
ExpiresAfter == 20
RecruitTimerDelay == 20
\* the age, in milliseconds, after which the interval drops an entry of
\* voiceChannelOperations, and the period of that interval in minutes
staleAfter == 30000
SyncPeriod == 5

Users == 1..NumUsers
Sids == 1..MaxSessions
Capacities == MinPlayers..MaxPlayers

VARIABLES
    now,                 \* Date.now(), in minutes
    sessions,            \* the session objects, by session id
    activeSessions,      \* keys of the activeSessions Map, in insertion order
    userCreatedSessions, \* the userCreatedSessions Map (0: no entry)
    dbSessions,          \* rows of the lfg_sessions table
    timers,              \* pending setTimeout callbacks
    tasks,               \* handlers suspended at an await
    nextSid,             \* next session id to allocate
    requests,            \* commands, button presses and restarts so far
    voiceChannels,       \* the sessions whose voice channel exists
    dbUserSessions,      \* rows of the user_sessions table (0: no row)
    voiceChannelOperations, \* entries of the voiceChannelOperations Map
    permissionOverwrites \* <<channel, user>>: the user's overwrite of the
                         \* voice channel that allows the user in

vars == <<now, sessions, activeSessions, userCreatedSessions, dbSessions,
          timers, tasks, nextSid, requests, voiceChannels, dbUserSessions,
          voiceChannelOperations, permissionOverwrites>>

\* ---------------------------------------------------------------- values
NoTimer == [kind |-> "none", sid |-> 0, due |-> 0]

NoSession ==
    [creator |-> 0, playersNeeded |-> 0, status |-> "none",
     currentPlayers |-> <<>>, confirmedPlayers |-> <<>>,
     confirmationStartTime |-> 0, createdAt |-> 0, timeoutId |-> NoTimer]

NoRow ==
    [exists |-> FALSE, isActive |-> FALSE, creatorId |-> 0, playersNeeded |-> 0,
     currentPlayers |-> <<>>, confirmedPlayers |-> <<>>, status |-> "none",
     confirmationStartTime |-> 0, expiresAt |-> 0]

\* a row with isActive = false: no query of the program selects the other
\* columns of such a row
Inactive == [NoRow EXCEPT !.exists = TRUE]

\* ------------------------------------------------------- array operations
Includes(arr, x) == \E i \in 1..Len(arr) : arr[i] = x

\* arr.filter(id => id !== x)
FilterOut(arr, x) == SelectSeq(arr, LAMBDA y : y # x)

\* arr.indexOf(x) followed by arr.splice(index, 1)
Splice(arr, x) ==
    IF ~Includes(arr, x) THEN arr
    ELSE LET i == CHOOSE k \in 1..Len(arr) :
                      arr[k] = x /\ \A j \in 1..(k-1) : arr[j] # x
         IN  SubSeq(arr, 1, i-1) \o SubSeq(arr, i+1, Len(arr))

\* [...new Set(arr)]: first occurrences, in order
RECURSIVE Unique(_)
Unique(arr) ==
    IF arr = <<>> THEN <<>>
    ELSE LET init == Unique(SubSeq(arr, 1, Len(arr)-1))
             last == arr[Len(arr)]
         IN  IF Includes(init, last) THEN init ELSE Append(init, last)

Elems(arr) == {arr[i] : i \in 1..Len(arr)}

MinOf(S) == CHOOSE x \in S : \A y \in S : x <= y

\* ------------------------------------------------------------------- Maps
\* a Map keeps its keys in insertion order; find() and for..of follow it
mapHas(m, k) == Includes(m, k)
mapSet(m, k) == IF Includes(m, k) THEN m ELSE Append(m, k)
mapDelete(m, k) == FilterOut(m, k)

\* the first key, in insertion order, that satisfies P (0: none)
Find(m, P(_)) ==
    IF \E i \in 1..Len(m) : P(m[i])
    THEN m[MinOf({i \in 1..Len(m) : P(m[i])})]
    ELSE 0

\* for..of over a live Map: the first key not yet passed that satisfies P,
\* and the keys passed once it has been reached
NextKey(m, passed, P(_)) == Find(m, LAMBDA k : ~Includes(passed, k) /\ P(k))
PassedUpTo(m, passed, k) ==
    LET i == MinOf({j \in 1..Len(m) : m[j] = k})
    IN  passed \o SelectSeq(SubSeq(m, 1, i), LAMBDA x : ~Includes(passed, x))

\* ------------------------------------------------------------------ tasks
\* seen: what handleConfirmationTimeout found when it was entered, the
\* currentPlayers and the confirmedPlayers of its session (<<>> elsewhere)
Task(pc, user, sid, n, list, st, ok) ==
    [pc |-> pc, user |-> user, sid |-> sid, n |-> n, list |-> list,
     st |-> st, ok |-> ok, seen |-> <<>>]

\* a handler that has just been dispatched and has not suspended yet
New == {}

\* o: the suspended task that resumes ({t}), or New
Done(o) == tasks' = tasks \ o
Move(o, t2) == tasks' = (tasks \ o) \cup {t2}
Goto(t, pc) == Move({t}, [t EXCEPT !.pc = pc])

\* handlers and callbacks overlap during the first OverlapRequests requests
\* of a run; the requests after these are dispatched one at a time
Overlap(n) == IF n <= OverlapRequests THEN MaxTasks ELSE 1

CanSpawn == Cardinality(tasks) < Overlap(requests)

\* a timer callback or the sweep may start whenever fewer than MaxTasks
\* handlers are suspended
CanRun == Cardinality(tasks) < MaxTasks


\* ---------------------------------------------------------------- timers
\* clearTimeout(session.timeoutId)
clearTimeout(tms, id) == tms \ {id}

\* setTimeout(callback, delay)
setTimeout(kind, sid, delay) == [kind |-> kind, sid |-> sid, due |-> now + delay]

\* ------------------------------------------------------------------ store
\* DatabaseStorage.getSession: the row, if it exists and is active
getSession(db, sid) == IF db[sid].exists /\ db[sid].isActive THEN db[sid] ELSE NoRow

\* DatabaseStorage.updateSession: only an active row is updated
updateSession(db, sid, players, status) ==
    IF db[sid].exists /\ db[sid].isActive
    THEN [db EXCEPT ![sid].currentPlayers = players, ![sid].status = status]
    ELSE db

\* DatabaseStorage.deleteSession: soft delete
deleteSession(db, sid) ==
    IF db[sid].exists THEN [db EXCEPT ![sid] = Inactive] ELSE db

\* DatabaseStorage.updateSession with the fields handleJoinLfg writes for a
\* full team
updateSessionConfirming(db, sid, players, startTime) ==
    IF db[sid].exists /\ db[sid].isActive
    THEN [db EXCEPT ![sid].currentPlayers = players,
                    ![sid].status = "confirming",
                    ![sid].confirmationStartTime = startTime]
    ELSE db

\* DatabaseStorage.createSession with the sessionData of handleLfgCommand
createSession(db, sid, user, players, expires) ==
    [db EXCEPT ![sid] = [exists |-> TRUE, isActive |-> TRUE,
                         creatorId |-> user, playersNeeded |-> players,
                         currentPlayers |-> <<user>>, confirmedPlayers |-> <<>>,
                         status |-> "waiting", confirmationStartTime |-> 0,
                         expiresAt |-> expires]]

\* DatabaseStorage.getAllActiveSessions: the active rows, newest first
\* (session ids are allocated in the order of creation)
RECURSIVE getAllActiveSessions(_, _)
getAllActiveSessions(db, n) ==
    IF n = 0 THEN <<>>
    ELSE (IF db[n].exists /\ db[n].isActive THEN <<n>> ELSE <<>>)
             \o getAllActiveSessions(db, n - 1)

\* DatabaseStorage.createUserSession: the user's row is replaced
createUserSession(rows, user, sid) == [rows EXCEPT ![user] = sid]

\* DatabaseStorage.deleteUserSession
deleteUserSession(rows, user) == [rows EXCEPT ![user] = 0]

\* DatabaseStorage.cleanupExpiredSessions
cleanupExpiredSessions(db) ==
    [s \in Sids |->
        IF db[s].exists /\ db[s].isActive /\ db[s].expiresAt < now
        THEN Inactive ELSE db[s]]

\* ------------------------------------------------ voiceChannelOperations
\* the keys `delete_<channel>` and `permission_<channel>_<user>`
opKey(op, channel, user) == [op |-> op, channel |-> channel, user |-> user]

\* voiceChannelOperations.has(operationKey)
opsHas(ops, key) == \E e \in ops : e.key = key

\* voiceChannelOperations.set(operationKey, Date.now())
opsSet(ops, key) == {e \in ops : e.key # key} \cup {[key |-> key, at |-> now]}

\* voiceChannelOperations.delete(operationKey)
opsDelete(ops, key) == {e \in ops : e.key # key}

\* minutes in milliseconds
Millis(minutes) == minutes * 60 * 1000

\* the loop of the interval: entries older than 30 seconds are deleted
opsCleanup(ops) == {e \in ops : ~(Millis(now - e.at) > staleAfter)}

\* ------------------------------------------------- permission overwrites
\* voiceChannel.permissionOverwrites.edit(user, allow) and .delete(user),
\* and what the deletion of the channel leaves of its overwrites
overwritesEdit(overwrites, channel, user) == overwrites \cup {<<channel, user>>}

overwritesDelete(overwrites, channel, user) == overwrites \ {<<channel, user>>}

channelDeleted(overwrites, channel) == {o \in overwrites : o[1] # channel}

\* ------------------------------------------------------ garbage collection
\* session objects that nothing refers to any more
Garbage ==
    {s \in Sids : /\ sessions[s] # NoSession
                  /\ ~mapHas(activeSessions, s)
                  /\ \A t \in tasks : t.sid # s}

\* pending callbacks of sessions that have left the Map: session ids are
\* never used again, so such a callback finds no session and does nothing
Inert ==
    {tm \in timers : /\ ~mapHas(activeSessions, tm.sid)
                     /\ \A t \in tasks : t.sid # tm.sid}

\* what can never be read again is dropped
Collect ==
    /\ Garbage # {} \/ Inert # {}
    /\ sessions' = [s \in Sids |-> IF s \in Garbage THEN NoSession ELSE sessions[s]]
    /\ timers' = timers \ Inert
    /\ UNCHANGED <<now, activeSessions, userCreatedSessions, dbSessions,
                   tasks, nextSid, requests,
                   voiceChannels, permissionOverwrites, dbUserSessions,
                   voiceChannelOperations>>

\* a command or a button press is dispatched to its handler (or the
\* process is restarted)
Accepted ==
    /\ requests < MaxRequests
    /\ Cardinality(tasks) < Overlap(requests + 1)
    /\ requests' = requests + 1

\* ------------------------------------------------------------------- Init
Init ==
    /\ now = 1
    /\ sessions = [s \in Sids |-> NoSession]
    /\ activeSessions = <<>>
    /\ userCreatedSessions = [u \in Users |-> 0]
    /\ dbSessions = [s \in Sids |-> NoRow]
    /\ timers = {}
    /\ tasks = {}
    /\ nextSid = 1
    /\ requests = 0
    /\ voiceChannels = {}
    /\ dbUserSessions = [u \in Users |-> 0]
    /\ voiceChannelOperations = {}
    /\ permissionOverwrites = {}

\* ------------------------------------------------------ handleLfgCommand
\* A handler that starts with deferReply/deferUpdate reads nothing before it
\* resumes, so its dispatch and its first segment are one action.  A request
\* that is rejected without any effect leaves the state unchanged and is the
\* action being disabled.

\* Array.from(activeSessions.values()).find(s => s.currentPlayers.includes(u))
userInSession(u) ==
    Find(activeSessions, LAMBDA s : Includes(sessions[s].currentPlayers, u))

UnallocatedLfg ==
    {t \in tasks : t.pc \in {"lfg_orphan", "lfg_orphan_del", "lfg_dbcheck"}
                   /\ t.ok}

\* channel restriction and game/mode validation; then the category and the
\* voice channel are created, the id is built and storage.createSession is
\* called (nothing of the state is read or written between these awaits)
lfgValidate(o, t) ==
    IF t.ok
    THEN /\ nextSid' = nextSid + 1
         /\ voiceChannels' = voiceChannels \cup {nextSid}
         /\ permissionOverwrites' =
                overwritesEdit(permissionOverwrites, nextSid, t.user)
         /\ Move(o, [t EXCEPT !.pc = "lfg_dbcreate", !.sid = nextSid])
    ELSE /\ Done(o)
         /\ UNCHANGED <<nextSid, voiceChannels, permissionOverwrites>>

\* "is the user already in another LFG session": storage.getSession is
\* called for the first session that lists the user
lfgMemberCheck(o, t) ==
    IF userInSession(t.user) # 0
    THEN /\ Move(o, [t EXCEPT !.pc = "lfg_dbcheck", !.sid = userInSession(t.user)])
         /\ UNCHANGED <<nextSid, voiceChannels, permissionOverwrites>>
    ELSE lfgValidate(o, t)

\* the calls of handleLfgCommand that may throw once the voice channel
\* exists
FailPoints == {"none", "createSession", "createUserSession", "editReply"}

\* the command arrives: "does the user already have a session as creator"
\* (ok: the channel, the game and the mode are valid; fails: the call that
\* is going to throw)
handleLfgCommand(u, players, ok, fails) ==
    /\ Accepted
    /\ CanSpawn
    /\ ok => nextSid + Cardinality(UnallocatedLfg) <= MaxSessions
    /\ ~ok => fails = "none"
    /\ fails # "none" => nextSid + Cardinality(UnallocatedLfg) <= MaxFailing
    /\ LET existingSessionId == userCreatedSessions[u]
           t == Task("lfg", u, 0, players, <<>>, fails, ok) IN
       IF existingSessionId # 0
       THEN /\ ~mapHas(activeSessions, existingSessionId)
            /\ userCreatedSessions' = [userCreatedSessions EXCEPT ![u] = 0]
            /\ Move(New, [t EXCEPT !.pc = "lfg_orphan", !.sid = existingSessionId])
            /\ UNCHANGED <<nextSid, voiceChannels, permissionOverwrites>>
       ELSE /\ userInSession(u) # 0 \/ ok
            /\ lfgMemberCheck(New, t)
            /\ UNCHANGED userCreatedSessions
    /\ UNCHANGED <<now, sessions, activeSessions, dbSessions, timers,
                   dbUserSessions,
                   voiceChannelOperations>>

\* An index entry without its session is never left behind: every handler
\* below deletes the creator's entry together with the session, and
\* loadSessionData rebuilds both Maps.  The two continuations of that branch are stated here and are
\* not part of Next.
\* storage.getSession(existingSessionId) returned
LfgOrphan(t) ==
    /\ t.pc = "lfg_orphan"
    /\ IF getSession(dbSessions, t.sid).exists
       THEN /\ Goto(t, "lfg_orphan_del")
            /\ UNCHANGED <<nextSid, voiceChannels, permissionOverwrites>>
       ELSE lfgMemberCheck({t}, t)
    /\ UNCHANGED <<now, sessions, activeSessions, userCreatedSessions,
                   dbSessions, timers, requests,
                   dbUserSessions,
                   voiceChannelOperations>>

\* storage.deleteSession(existingSessionId) returned
LfgOrphanDel(t) ==
    /\ t.pc = "lfg_orphan_del"
    /\ dbSessions' = deleteSession(dbSessions, t.sid)
    /\ lfgMemberCheck({t}, t)
    /\ UNCHANGED <<now, sessions, activeSessions, userCreatedSessions, timers,
                   requests,
                   dbUserSessions,
                   voiceChannelOperations>>

\* storage.getSession(userInSession.id) returned: a user the store does not
\* list is spliced out of the session object and may go on
LfgDbCheck(t) ==
    /\ t.pc = "lfg_dbcheck"
    /\ LET dbSession == getSession(dbSessions, t.sid) IN
       IF ~dbSession.exists \/ ~Includes(dbSession.currentPlayers, t.user)
       THEN /\ sessions' = [sessions EXCEPT ![t.sid].currentPlayers =
                               Splice(sessions[t.sid].currentPlayers, t.user)]
            /\ lfgValidate({t}, t)
       ELSE /\ Done({t})
            /\ UNCHANGED <<sessions, nextSid, voiceChannels, permissionOverwrites>>
    /\ UNCHANGED <<now, activeSessions, userCreatedSessions, dbSessions, timers,
                   requests,
                   dbUserSessions,
                   voiceChannelOperations>>

\* storage.createSession returned and storage.createUserSession is called,
\* or it threw and the voice channel is deleted
LfgDbCreate(t) ==
    /\ t.pc = "lfg_dbcreate"
    /\ IF t.st = "createSession"
       THEN /\ Goto(t, "lfg_undo_voice")
            /\ UNCHANGED dbSessions
       ELSE /\ dbSessions' = createSession(dbSessions, t.sid, t.user, t.n,
                                            now + ExpiresAfter)
            /\ Goto(t, "lfg_usersession")
    /\ UNCHANGED <<now, sessions, activeSessions, userCreatedSessions,
                   timers, nextSid, requests,
                   voiceChannels, permissionOverwrites, dbUserSessions,
                   voiceChannelOperations>>

\* storage.createUserSession returned: the session object is built and
\* registered, the 20 minute expiry is scheduled and the announcement is
\* sent with interaction.editReply; or it threw and the voice channel is
\* deleted
LfgRegister(t) ==
    /\ t.pc = "lfg_usersession"
    /\ IF t.st = "createUserSession"
       THEN /\ Goto(t, "lfg_undo_voice")
            /\ UNCHANGED <<sessions, activeSessions, userCreatedSessions,
                           timers, dbUserSessions>>
       ELSE /\ LET timeoutId == setTimeout("recruit", t.sid, RecruitTimerDelay) IN
               /\ sessions' = [sessions EXCEPT ![t.sid] =
                      [creator |-> t.user, playersNeeded |-> t.n,
                       status |-> "waiting",
                       currentPlayers |-> <<t.user>>, confirmedPlayers |-> <<>>,
                       confirmationStartTime |-> 0, createdAt |-> now,
                       timeoutId |-> timeoutId]]
               /\ timers' = timers \cup {timeoutId}
            /\ activeSessions' = mapSet(activeSessions, t.sid)
            /\ userCreatedSessions' = [userCreatedSessions EXCEPT ![t.user] = t.sid]
            /\ dbUserSessions' = createUserSession(dbUserSessions, t.user, t.sid)
            /\ Move({t}, [t EXCEPT !.pc = "lfg_reply", !.n = 0])
    /\ UNCHANGED <<now, dbSessions, nextSid, requests, voiceChannels, permissionOverwrites,
                   voiceChannelOperations>>

\* interaction.editReply returned: the message id is stored.  Or it threw:
\* the session the creator index holds for the user leaves the Maps and
\* storage.deleteSession is called for it (n: that session)
LfgReply(t) ==
    /\ t.pc = "lfg_reply"
    /\ IF t.st = "editReply"
       THEN LET partialSessionId == userCreatedSessions[t.user] IN
            IF partialSessionId # 0
            THEN /\ activeSessions' = mapDelete(activeSessions, partialSessionId)
                 /\ userCreatedSessions' = [userCreatedSessions EXCEPT ![t.user] = 0]
                 /\ Move({t}, [t EXCEPT !.pc = "lfg_undo_db", !.n = partialSessionId])
            ELSE /\ Goto(t, "lfg_undo_voice")
                 /\ UNCHANGED <<activeSessions, userCreatedSessions>>
       ELSE /\ Done({t})
            /\ UNCHANGED <<activeSessions, userCreatedSessions>>
    /\ UNCHANGED <<now, sessions, dbSessions, timers, nextSid, requests,
                   voiceChannels, permissionOverwrites, dbUserSessions,
                   voiceChannelOperations>>

\* storage.deleteSession(partialSessionId) returned; the voice channel is
\* deleted
LfgUndoDb(t) ==
    /\ t.pc = "lfg_undo_db"
    /\ dbSessions' = deleteSession(dbSessions, t.n)
    /\ Move({t}, [t EXCEPT !.pc = "lfg_undo_voice", !.n = 0])
    /\ UNCHANGED <<now, sessions, activeSessions, userCreatedSessions, timers,
                   nextSid, requests, voiceChannels, permissionOverwrites, dbUserSessions,
                   voiceChannelOperations>>

\* voiceChannel.delete returned: the failure is reported and the handler
\* returns
LfgUndoVoice(t) ==
    /\ t.pc = "lfg_undo_voice"
    /\ voiceChannels' = voiceChannels \ {t.sid}
    /\ permissionOverwrites' = channelDeleted(permissionOverwrites, t.sid)
    /\ Done({t})
    /\ UNCHANGED <<now, sessions, activeSessions, userCreatedSessions,
                   dbSessions, timers, nextSid, requests, dbUserSessions,
                   voiceChannelOperations>>

\* --------------------------------------------------------- handleJoinLfg
userInOtherSession(u, sid) ==
    Find(activeSessions,
         LAMBDA s : s # sid /\ Includes(sessions[s].currentPlayers, u)) # 0

\* the checks without the one for a full session
JoinRejectedFullUnchecked(u, sid) ==
    \/ ~mapHas(activeSessions, sid)
    \/ Includes(sessions[sid].currentPlayers, u)
    \/ userInOtherSession(u, sid)

\* the request is refused: no session, already a member, full, or a member
\* of another session
JoinRejected(u, sid) ==
    \/ ~mapHas(activeSessions, sid)
    \/ Includes(sessions[sid].currentPlayers, u)
    \/ Len(sessions[sid].currentPlayers) >= sessions[sid].playersNeeded
    \/ userInOtherSession(u, sid)

\* the button press: the checks and the push, up to the call of
\* storage.updateSession
handleJoinLfg(u, sid) ==
    /\ Accepted
    /\ CanSpawn
    /\ ~JoinRejected(u, sid)
    /\ LET session == sessions[sid]
           players == Append(session.currentPlayers, u) IN
       /\ sessions' = [sessions EXCEPT ![sid].currentPlayers = players]
       /\ Move(New, Task("join_db1", u, sid, 0, players, session.status, TRUE))
    /\ UNCHANGED <<now, activeSessions, userCreatedSessions, dbSessions,
                   timers, nextSid,
                   voiceChannels, permissionOverwrites, dbUserSessions,
                   voiceChannelOperations>>

\* storage.updateSession returned; storage.createUserSession is called
JoinDb1(t) ==
    /\ t.pc = "join_db1"
    /\ dbSessions' = updateSession(dbSessions, t.sid, t.list, t.st)
    /\ Move({t}, [t EXCEPT !.pc = "join_usersession", !.list = <<>>, !.st = ""])
    /\ UNCHANGED <<now, sessions, activeSessions, userCreatedSessions,
                   timers, nextSid, requests,
                   voiceChannels, permissionOverwrites, dbUserSessions,
                   voiceChannelOperations>>

\* the join goes on after the grant: a full team starts the confirmation
\* phase and is notified
joinGranted(o, t) ==
    LET session == sessions[t.sid] IN
    IF Len(session.currentPlayers) = session.playersNeeded
    THEN /\ sessions' = [sessions EXCEPT
                            ![t.sid].status = "confirming",
                            ![t.sid].confirmationStartTime = now]
         /\ Move(o, [t EXCEPT !.pc = "join_notify"])
    ELSE /\ Done(o)
         /\ UNCHANGED sessions

\* storage.createUserSession returned and manageVoiceChannelAccess is
\* called for the grant: the key is registered and the permission edit is
\* awaited; with the key registered already, or without a voice channel,
\* nothing is requested and the join goes on
JoinUserSession(t) ==
    /\ t.pc = "join_usersession"
    /\ dbUserSessions' = createUserSession(dbUserSessions, t.user, t.sid)
    /\ LET operationKey == opKey("permission", t.sid, t.user) IN
       IF t.sid \notin voiceChannels \/ opsHas(voiceChannelOperations, operationKey)
       THEN /\ joinGranted({t}, t)
            /\ UNCHANGED voiceChannelOperations
       ELSE /\ voiceChannelOperations' = opsSet(voiceChannelOperations, operationKey)
            /\ Goto(t, "join_grant")
            /\ UNCHANGED sessions
    /\ UNCHANGED <<now, activeSessions, userCreatedSessions, dbSessions,
                   timers, nextSid, requests,
                   voiceChannels, permissionOverwrites>>

\* the permission edit returned, or threw because the channel is gone: the
\* key is deleted
JoinGrant(t) ==
    /\ t.pc = "join_grant"
    /\ voiceChannelOperations' =
           opsDelete(voiceChannelOperations, opKey("permission", t.sid, t.user))
    /\ permissionOverwrites' =
           IF t.sid \in voiceChannels
           THEN overwritesEdit(permissionOverwrites, t.sid, t.user)
           ELSE permissionOverwrites
    /\ joinGranted({t}, t)
    /\ UNCHANGED <<now, activeSessions, userCreatedSessions, dbSessions,
                   timers, nextSid, requests,
                   voiceChannels, dbUserSessions>>

\* the notifications returned: the old timer is cleared, the confirmation
\* timer is scheduled and storage.updateSession is called
JoinNotify(t) ==
    /\ t.pc = "join_notify"
    /\ LET session == sessions[t.sid]
           timeoutId == setTimeout("confirm", t.sid, ConfirmTimerDelay) IN
       /\ timers' = clearTimeout(timers, session.timeoutId) \cup {timeoutId}
       /\ sessions' = [sessions EXCEPT ![t.sid].timeoutId = timeoutId]
       /\ Move({t}, [t EXCEPT !.pc = "join_db3", !.list = session.currentPlayers,
                              !.n = session.confirmationStartTime])
    /\ UNCHANGED <<now, activeSessions, userCreatedSessions, dbSessions, nextSid,
                   requests,
                   voiceChannels, permissionOverwrites, dbUserSessions,
                   voiceChannelOperations>>

\* storage.updateSession returned
JoinDb3(t) ==
    /\ t.pc = "join_db3"
    /\ dbSessions' = updateSessionConfirming(dbSessions, t.sid, t.list, t.n)
    /\ Done({t})
    /\ UNCHANGED <<now, sessions, activeSessions, userCreatedSessions,
                   timers, nextSid, requests,
                   voiceChannels, permissionOverwrites, dbUserSessions,
                   voiceChannelOperations>>

\* ---------------------------------------------------- handleConfirmation
\* finalizeSession, up to its first await
finalizeSession(session) == [session EXCEPT !.status = "active"]

\* the checks without the one for a user who has confirmed already
ConfirmRejectedAgainUnchecked(u, sid) ==
    \/ ~mapHas(activeSessions, sid)
    \/ ~Includes(sessions[sid].currentPlayers, u)
    \/ sessions[sid].status # "confirming"

\* the request is answered without any effect
ConfirmRejected(u, sid) ==
    \/ ~mapHas(activeSessions, sid)
    \/ ~Includes(sessions[sid].currentPlayers, u)
    \/ sessions[sid].status # "confirming"
    \/ Includes(sessions[sid].confirmedPlayers, u)

\* the button press: nothing is awaited between the checks and the last
\* assignment
handleConfirmation(u, sid) ==
    /\ Accepted
    /\ ~ConfirmRejected(u, sid)
    /\ LET session == sessions[sid]
           confirmed == Append(session.confirmedPlayers, u) IN
       IF Len(confirmed) = Len(session.currentPlayers)
       THEN /\ timers' = clearTimeout(timers, session.timeoutId)
            /\ sessions' = [sessions EXCEPT ![sid] =
                   finalizeSession([session EXCEPT
                       !.confirmedPlayers = confirmed,
                       !.timeoutId = NoTimer,
                       !.confirmationStartTime = 0])]
       ELSE /\ sessions' = [sessions EXCEPT ![sid].confirmedPlayers = confirmed]
            /\ UNCHANGED timers
    /\ UNCHANGED <<now, activeSessions, userCreatedSessions, dbSessions,
                   tasks, nextSid,
                   voiceChannels, permissionOverwrites, dbUserSessions,
                   voiceChannelOperations>>

\* -------------------------------------------------------------- reopenLfg
\* reopenLfg with players left: the status assignment (the announcement is
\* updated afterwards)
reopenLfg(session) == [session EXCEPT !.status = "waiting"]

\* reopenLfg without players: the voice channel has been deleted
ReopenDel(t) ==
    /\ t.pc = "reopen_del"
    /\ voiceChannels' = voiceChannels \ {t.sid}
    /\ permissionOverwrites' = channelDeleted(permissionOverwrites, t.sid)
    /\ activeSessions' = mapDelete(activeSessions, t.sid)
    /\ userCreatedSessions' =
           [userCreatedSessions EXCEPT ![sessions[t.sid].creator] = 0]
    /\ Done({t})
    /\ UNCHANGED <<now, sessions, dbSessions, timers, nextSid, requests,
                   dbUserSessions,
                   voiceChannelOperations>>

\* ---------------------------------------------------------- handleDecline
\* the button press, up to the first await after deferReply
handleDecline(u, sid) ==
    /\ Accepted
    /\ CanSpawn
    /\ mapHas(activeSessions, sid)
    /\ Includes(sessions[sid].currentPlayers, u)
    /\ LET session == sessions[sid] IN
       /\ timers' = clearTimeout(timers, session.timeoutId)
       /\ IF u = session.creator
          THEN \* the creator cancels the session: voiceChannel.delete()
               /\ sessions' = [sessions EXCEPT ![sid].timeoutId = NoTimer]
               /\ Move(New, Task("decline_cdel", u, sid, 0, <<>>, "", TRUE))
          ELSE \* a player declines: permissionOverwrites.delete()
               /\ sessions' = [sessions EXCEPT ![sid] =
                      [session EXCEPT
                          !.currentPlayers = FilterOut(session.currentPlayers, u),
                          !.confirmedPlayers = FilterOut(session.confirmedPlayers, u),
                          !.timeoutId = NoTimer,
                          !.confirmationStartTime = 0]]
               /\ Move(New, Task("decline_revoke", u, sid, 0, <<>>, "", TRUE))
    /\ UNCHANGED <<now, activeSessions, userCreatedSessions, dbSessions, nextSid,
                   voiceChannels, permissionOverwrites, dbUserSessions,
                   voiceChannelOperations>>

\* the voice channel is deleted: the session leaves the Maps and the loop
\* over its players starts
DeclineCDel(t) ==
    /\ t.pc = "decline_cdel"
    /\ voiceChannels' = voiceChannels \ {t.sid}
    /\ permissionOverwrites' = channelDeleted(permissionOverwrites, t.sid)
    /\ activeSessions' = mapDelete(activeSessions, t.sid)
    /\ LET session == sessions[t.sid]
           players == session.currentPlayers
           ucs == [userCreatedSessions EXCEPT ![session.creator] = 0] IN
       IF players = <<>>
       THEN /\ userCreatedSessions' = ucs
            /\ Goto(t, "decline_cdb")
       ELSE /\ userCreatedSessions' = [ucs EXCEPT ![Head(players)] = 0]
            /\ Move({t}, [t EXCEPT !.pc = "decline_cloop", !.n = Head(players),
                                   !.list = Tail(players)])
    /\ UNCHANGED <<now, sessions, dbSessions, timers, nextSid, requests,
                   dbUserSessions,
                   voiceChannelOperations>>

\* storage.deleteUserSession(playerId) returned (n: that player): next
\* player, or storage.deleteSession is called
DeclineCLoop(t) ==
    /\ t.pc = "decline_cloop"
    /\ dbUserSessions' = deleteUserSession(dbUserSessions, t.n)
    /\ IF t.list = <<>>
       THEN /\ Move({t}, [t EXCEPT !.pc = "decline_cdb", !.n = 0])
            /\ UNCHANGED userCreatedSessions
       ELSE /\ userCreatedSessions' =
                   [userCreatedSessions EXCEPT ![Head(t.list)] = 0]
            /\ Move({t}, [t EXCEPT !.n = Head(t.list), !.list = Tail(t.list)])
    /\ UNCHANGED <<now, sessions, activeSessions, dbSessions, timers, nextSid,
                   requests,
                   voiceChannels, permissionOverwrites,
                   voiceChannelOperations>>

\* storage.deleteSession returned
DeclineCDb(t) ==
    /\ t.pc = "decline_cdb"
    /\ dbSessions' = deleteSession(dbSessions, t.sid)
    /\ Done({t})
    /\ UNCHANGED <<now, sessions, activeSessions, userCreatedSessions,
                   timers, nextSid, requests,
                   voiceChannels, permissionOverwrites, dbUserSessions,
                   voiceChannelOperations>>

\* the player's access is removed and the reply sent: reopenLfg
DeclineRevoke(t) ==
    /\ t.pc = "decline_revoke"
    /\ IF Len(sessions[t.sid].currentPlayers) = 0
       THEN /\ Goto(t, "reopen_del")
            /\ UNCHANGED sessions
       ELSE /\ sessions' = [sessions EXCEPT ![t.sid] = reopenLfg(@)]
            /\ Done({t})
    /\ permissionOverwrites' =
           overwritesDelete(permissionOverwrites, t.sid, t.user)
    /\ UNCHANGED <<now, activeSessions, userCreatedSessions, dbSessions,
                   timers, nextSid, requests,
                   voiceChannels, dbUserSessions,
                   voiceChannelOperations>>

\* --------------------------------------------------------- handleLeaveLfg
\* the checks without the one for the creator
LeaveRejectedCreatorUnchecked(u, sid) ==
    \/ ~mapHas(activeSessions, sid)
    \/ ~Includes(sessions[sid].currentPlayers, u)

\* the request is refused: no session, not a member, or the creator
LeaveRejected(u, sid) ==
    \/ ~mapHas(activeSessions, sid)
    \/ ~Includes(sessions[sid].currentPlayers, u)
    \/ u = sessions[sid].creator

\* the button press: the checks, then interaction.reply is awaited
handleLeaveLfg(u, sid) ==
    /\ Accepted
    /\ CanSpawn
    /\ ~LeaveRejected(u, sid)
    /\ Move(New, Task("leave_replied", u, sid, 0, <<>>, "", TRUE))
    /\ UNCHANGED <<now, sessions, activeSessions, userCreatedSessions,
                   dbSessions, timers, nextSid,
                   voiceChannels, permissionOverwrites, dbUserSessions,
                   voiceChannelOperations>>

\* the reply is sent: the user is filtered out of both lists and
\* manageVoiceChannelAccess is called for the revoke (st: the key was
\* registered by this call and the permission delete is awaited)
LeaveReplied(t) ==
    /\ t.pc = "leave_replied"
    /\ sessions' = [sessions EXCEPT
           ![t.sid].currentPlayers = FilterOut(@, t.user),
           ![t.sid].confirmedPlayers = FilterOut(@, t.user)]
    /\ LET operationKey == opKey("permission", t.sid, t.user) IN
       IF t.sid \notin voiceChannels \/ opsHas(voiceChannelOperations, operationKey)
       THEN /\ Goto(t, "leave_revoke")
            /\ UNCHANGED voiceChannelOperations
       ELSE /\ voiceChannelOperations' = opsSet(voiceChannelOperations, operationKey)
            /\ Move({t}, [t EXCEPT !.pc = "leave_revoke", !.st = "guard"])
    /\ UNCHANGED <<now, activeSessions, userCreatedSessions, dbSessions,
                   timers, nextSid, requests,
                   voiceChannels, permissionOverwrites, dbUserSessions>>

\* the revoke and the disconnect returned (the key is deleted): an empty
\* session is deleted, any other is reopened
LeaveRevoke(t) ==
    /\ t.pc = "leave_revoke"
    /\ voiceChannelOperations' =
           IF t.st = "guard"
           THEN opsDelete(voiceChannelOperations, opKey("permission", t.sid, t.user))
           ELSE voiceChannelOperations
    /\ IF Len(sessions[t.sid].currentPlayers) = 0
       THEN /\ Move({t}, [t EXCEPT !.pc = "leave_del", !.st = ""])
            /\ UNCHANGED sessions
       ELSE /\ sessions' = [sessions EXCEPT ![t.sid] = reopenLfg(@)]
            /\ Done({t})
    /\ permissionOverwrites' =
           IF t.st = "guard"
           THEN overwritesDelete(permissionOverwrites, t.sid, t.user)
           ELSE permissionOverwrites
    /\ UNCHANGED <<now, activeSessions, userCreatedSessions, dbSessions,
                   timers, nextSid, requests,
                   voiceChannels, dbUserSessions>>

\* the voice channel is deleted; storage.deleteSession is called
LeaveDel(t) ==
    /\ t.pc = "leave_del"
    /\ voiceChannels' = voiceChannels \ {t.sid}
    /\ permissionOverwrites' = channelDeleted(permissionOverwrites, t.sid)
    /\ activeSessions' = mapDelete(activeSessions, t.sid)
    /\ userCreatedSessions' =
           [userCreatedSessions EXCEPT ![sessions[t.sid].creator] = 0]
    /\ Goto(t, "leave_dbdel")
    /\ UNCHANGED <<now, sessions, dbSessions, timers, nextSid, requests,
                   dbUserSessions,
                   voiceChannelOperations>>

\* storage.deleteSession returned
LeaveDbDel(t) ==
    /\ t.pc = "leave_dbdel"
    /\ dbSessions' = deleteSession(dbSessions, t.sid)
    /\ Done({t})
    /\ UNCHANGED <<now, sessions, activeSessions, userCreatedSessions,
                   timers, nextSid, requests,
                   voiceChannels, permissionOverwrites, dbUserSessions,
                   voiceChannelOperations>>

\* ---------------------------------------------- handleConfirmationTimeout
unconfirmedPlayers(session) ==
    SelectSeq(session.currentPlayers,
              LAMBDA id : ~Includes(session.confirmedPlayers, id))

\* the players are kept as below, the phase is not ended
ctKeepPhase(session) ==
    [session EXCEPT
        !.currentPlayers = Unique(<<session.creator>> \o session.confirmedPlayers),
        !.confirmedPlayers = <<>>]

\* "always keep the creator + all confirmed players", then reopenLfg
ctKeep(session) ==
    reopenLfg([session EXCEPT
        !.currentPlayers = Unique(<<session.creator>> \o session.confirmedPlayers),
        !.confirmedPlayers = <<>>,
        !.status = "waiting",
        !.confirmationStartTime = 0])

\* the handler is entered only for a registered, confirming session
ctApplies(sid) ==
    mapHas(activeSessions, sid) /\ sessions[sid].status = "confirming"

\* the loop that removes the access of the unconfirmed players awaits once
\* per player; without unconfirmed players nothing is awaited
ctSuspends(session) == unconfirmedPlayers(session) # <<>>

\* the players lists as the handler finds them
ctSeen(session) == <<session.currentPlayers, session.confirmedPlayers>>

\* the handler up to its first await
ctSync(session) ==
    LET s1 == [session EXCEPT !.timeoutId = NoTimer]
    IN  IF ctSuspends(session) THEN s1 ELSE ctKeep(s1)

\* the players whose access the timeout handler of task t removes: those
\* it found unconfirmed when it was entered
Revoked(t) ==
    SelectSeq(t.seen[1], LAMBDA id : ~Includes(t.seen[2], id))

\* the access of the unconfirmed players is removed
CtRevoke(t) ==
    /\ t.pc = "ct_revoke"
    /\ sessions' = [sessions EXCEPT ![t.sid] = ctKeep(@)]
    /\ IF t.st = "cron"
       THEN Move({t}, [t EXCEPT !.pc = "cron_conf", !.seen = <<>>])
       ELSE Done({t})
    /\ permissionOverwrites' =
           {o \in permissionOverwrites :
               ~(o[1] = t.sid /\ Includes(Revoked(t), o[2]))}
    /\ UNCHANGED <<now, activeSessions, userCreatedSessions, dbSessions,
                   timers, nextSid, requests,
                   voiceChannels, dbUserSessions,
                   voiceChannelOperations>>

\* ---------------------------------------------------------- expireSession
\* the voice channel is deleted and the announcement edited: the session
\* leaves the Maps; the membership rows are deleted and
\* storage.deleteSession is called
ExpVoice(t) ==
    /\ t.pc = "exp_voice"
    /\ voiceChannels' = voiceChannels \ {t.sid}
    /\ permissionOverwrites' = channelDeleted(permissionOverwrites, t.sid)
    /\ LET session == sessions[t.sid] IN
       /\ timers' = clearTimeout(timers, session.timeoutId)
       /\ sessions' = [sessions EXCEPT ![t.sid].timeoutId = NoTimer]
       /\ userCreatedSessions' =
              [u \in Users |->
                  IF u = session.creator \/ userCreatedSessions[u] = t.sid
                  THEN 0 ELSE userCreatedSessions[u]]
    /\ activeSessions' = mapDelete(activeSessions, t.sid)
    /\ Goto(t, "exp_db")
    /\ UNCHANGED <<now, dbSessions, nextSid, requests,
                   dbUserSessions,
                   voiceChannelOperations>>

\* storage.deleteUserSession returned for every player of the session and
\* storage.deleteSession returned
\* expireSession without the loop of 605-611: the membership rows stay
ExpDbKeepsMembership(t) ==
    /\ t.pc = "exp_db"
    /\ dbSessions' = deleteSession(dbSessions, t.sid)
    /\ IF t.st = "cron" THEN Goto(t, "cron_lfg") ELSE Done({t})
    /\ UNCHANGED <<now, sessions, activeSessions, userCreatedSessions,
                   timers, nextSid, requests,
                   voiceChannels, permissionOverwrites, dbUserSessions,
                   voiceChannelOperations>>

ExpDb(t) ==
    /\ t.pc = "exp_db"
    /\ dbUserSessions' =
           [u \in Users |->
               IF Includes(sessions[t.sid].currentPlayers, u)
               THEN 0 ELSE dbUserSessions[u]]
    /\ dbSessions' = deleteSession(dbSessions, t.sid)
    /\ IF t.st = "cron" THEN Goto(t, "cron_lfg") ELSE Done({t})
    /\ UNCHANGED <<now, sessions, activeSessions, userCreatedSessions,
                   timers, nextSid, requests,
                   voiceChannels, permissionOverwrites,
                   voiceChannelOperations>>

\* ----------------------------------------------------------------- timers
\* the callback scheduled by handleLfgCommand
RecruitTimerFires(tm) ==
    /\ tm \in timers /\ tm.kind = "recruit" /\ tm.due <= now
    /\ timers' = timers \ {tm}
    /\ LET currentSession == sessions[tm.sid] IN
       IF /\ mapHas(activeSessions, tm.sid)
          /\ Len(currentSession.currentPlayers) = 1
          /\ currentSession.status = "waiting"
       THEN /\ CanRun
            /\ Move(New, Task("exp_voice", 0, tm.sid, 0, <<>>, "", TRUE))
       ELSE UNCHANGED tasks
    /\ UNCHANGED <<now, sessions, activeSessions, userCreatedSessions,
                   dbSessions, nextSid, requests,
                   voiceChannels, permissionOverwrites, dbUserSessions,
                   voiceChannelOperations>>

\* the callback scheduled by handleJoinLfg
ConfirmTimerFires(tm) ==
    /\ tm \in timers /\ tm.kind = "confirm" /\ tm.due <= now
    /\ timers' = timers \ {tm}
    /\ IF ctApplies(tm.sid)
       THEN /\ sessions' = [sessions EXCEPT ![tm.sid] = ctSync(@)]
            /\ IF ctSuspends(sessions[tm.sid])
               THEN /\ CanRun
                    /\ Move(New, [Task("ct_revoke", 0, tm.sid, 0, <<>>, "", TRUE)
                                     EXCEPT !.seen = ctSeen(sessions[tm.sid])])
               ELSE UNCHANGED tasks
       ELSE UNCHANGED <<sessions, tasks>>
    /\ UNCHANGED <<now, activeSessions, userCreatedSessions, dbSessions, nextSid,
                   requests,
                   voiceChannels, permissionOverwrites, dbUserSessions,
                   voiceChannelOperations>>

\* ------------------------------------------------------ the minute sweep
confirmationExpired(k) ==
    /\ sessions[k].status = "confirming"
    /\ sessions[k].confirmationStartTime # 0
    /\ now - sessions[k].confirmationStartTime >= twoMinutes

lfgExpired(k) ==
    /\ sessions[k].status = "waiting"
    /\ Len(sessions[k].currentPlayers) = 1
    /\ now - sessions[k].createdAt >= twentyMinutes

\* checkExpiredLfgSessions from the keys not yet passed
checkExpiredLfgSessions(o, t, passed) ==
    LET k == NextKey(activeSessions, passed, lfgExpired) IN
    IF k = 0 THEN Done(o)
    ELSE Move(o, [t EXCEPT !.pc = "exp_voice", !.sid = k,
                           !.list = PassedUpTo(activeSessions, passed, k)])

\* checkExpiredConfirmations from the keys not yet passed, followed by
\* checkExpiredLfgSessions
checkExpiredConfirmations(o, t, passed) ==
    LET k == NextKey(activeSessions, passed, confirmationExpired) IN
    IF k = 0
    THEN /\ checkExpiredLfgSessions(o, t, <<>>)
         /\ UNCHANGED sessions
    ELSE /\ sessions' = [sessions EXCEPT ![k] = ctSync(@)]
         /\ Move(o, [t EXCEPT
                !.pc = IF ctSuspends(sessions[k]) THEN "ct_revoke" ELSE "cron_conf",
                !.sid = k,
                !.list = PassedUpTo(activeSessions, passed, k),
                !.seen = IF ctSuspends(sessions[k])
                         THEN ctSeen(sessions[k]) ELSE <<>>])

CronRunning == \E t \in tasks : t.st = "cron"

\* a sweep of this minute would find something to do
SweepDue ==
    \E k \in Elems(activeSessions) : confirmationExpired(k) \/ lfgExpired(k)

\* the cron callback
CronTick ==
    /\ CanRun
    /\ ~CronRunning
    /\ SweepDue
    /\ checkExpiredConfirmations(New, Task("cron", 0, 0, 0, <<>>, "cron", TRUE), <<>>)
    /\ UNCHANGED <<now, activeSessions, userCreatedSessions, dbSessions,
                   timers, nextSid, requests,
                   voiceChannels, permissionOverwrites, dbUserSessions,
                   voiceChannelOperations>>

\* handleConfirmationTimeout returned to the loop
CronConf(t) ==
    /\ t.pc = "cron_conf"
    /\ checkExpiredConfirmations({t}, t, t.list)
    /\ UNCHANGED <<now, activeSessions, userCreatedSessions, dbSessions,
                   timers, nextSid, requests,
                   voiceChannels, permissionOverwrites, dbUserSessions,
                   voiceChannelOperations>>

\* expireSession returned to the loop
CronLfg(t) ==
    /\ t.pc = "cron_lfg"
    /\ checkExpiredLfgSessions({t}, t, t.list)
    /\ UNCHANGED <<now, sessions, activeSessions, userCreatedSessions,
                   dbSessions, timers, nextSid, requests,
                   voiceChannels, permissionOverwrites, dbUserSessions,
                   voiceChannelOperations>>

\* the 5 minute interval: storage.cleanupExpiredSessions, then the stale
\* entries of voiceChannelOperations are deleted
SyncInterval ==
    /\ dbSessions' = cleanupExpiredSessions(dbSessions)
    /\ voiceChannelOperations' = opsCleanup(voiceChannelOperations)
    /\ <<dbSessions', voiceChannelOperations'>> # <<dbSessions, voiceChannelOperations>>
    /\ UNCHANGED <<now, sessions, activeSessions, userCreatedSessions,
                   timers, tasks, nextSid, requests,
                   voiceChannels, permissionOverwrites, dbUserSessions>>

\* -------------------------------------------- removeMemberFromAllSessions
listsMember(u, k) ==
    \/ Includes(sessions[k].currentPlayers, u)
    \/ Includes(sessions[k].confirmedPlayers, u)

\* the loop over the Map act, from the keys not yet passed: the member is
\* filtered out of the next session that lists it and its access removed
removeMemberLoop(o, t, passed, act) ==
    LET k == NextKey(act, passed, LAMBDA x : listsMember(t.user, x)) IN
    IF k = 0
    THEN /\ Done(o)
         /\ UNCHANGED sessions
    ELSE /\ sessions' = [sessions EXCEPT
                ![k].currentPlayers = FilterOut(@, t.user),
                ![k].confirmedPlayers = FilterOut(@, t.user)]
         /\ Move(o, [t EXCEPT !.pc = "rm_revoke", !.sid = k,
                              !.list = PassedUpTo(act, passed, k)])

\* /mod kick or ban: the member has been kicked
handleModCommand(u) ==
    /\ Accepted
    /\ CanSpawn
    /\ \E k \in Elems(activeSessions) : listsMember(u, k)
    /\ removeMemberLoop(New, Task("rm", u, 0, 0, <<>>, "rm", TRUE), <<>>,
                        activeSessions)
    /\ UNCHANGED <<now, activeSessions, userCreatedSessions, dbSessions,
                   timers, nextSid,
                   voiceChannels, permissionOverwrites, dbUserSessions,
                   voiceChannelOperations>>

\* the access is removed: the creator's or an empty session is ended, any
\* other is reopened
RmRevoke(t) ==
    /\ t.pc = "rm_revoke"
    /\ LET session == sessions[t.sid] IN
       IF session.creator = t.user \/ Len(session.currentPlayers) = 0
       THEN /\ Goto(t, "rm_del")
            /\ UNCHANGED sessions
       ELSE /\ sessions' = [sessions EXCEPT ![t.sid] = reopenLfg(@)]
            /\ Goto(t, "rm_loop")
    /\ permissionOverwrites' =
           overwritesDelete(permissionOverwrites, t.sid, t.user)
    /\ UNCHANGED <<now, activeSessions, userCreatedSessions, dbSessions,
                   timers, nextSid, requests,
                   voiceChannels, dbUserSessions,
                   voiceChannelOperations>>

\* the voice channel is deleted: the session leaves the Maps and the loop
\* goes on
RmDel(t) ==
    /\ t.pc = "rm_del"
    /\ voiceChannels' = voiceChannels \ {t.sid}
    /\ permissionOverwrites' = channelDeleted(permissionOverwrites, t.sid)
    /\ activeSessions' = mapDelete(activeSessions, t.sid)
    /\ userCreatedSessions' =
           [userCreatedSessions EXCEPT ![sessions[t.sid].creator] = 0]
    /\ removeMemberLoop({t}, t, t.list, mapDelete(activeSessions, t.sid))
    /\ UNCHANGED <<now, dbSessions, timers, nextSid, requests,
                   dbUserSessions,
                   voiceChannelOperations>>

\* reopenLfg returned to the loop
RmLoop(t) ==
    /\ t.pc = "rm_loop"
    /\ removeMemberLoop({t}, t, t.list, activeSessions)
    /\ UNCHANGED <<now, activeSessions, userCreatedSessions, dbSessions,
                   timers, nextSid, requests,
                   voiceChannels, permissionOverwrites, dbUserSessions,
                   voiceChannelOperations>>

\* ---------------------------------------------------- handleEndLfgCommand
\* /endlfg by a user who created a session held in memory (the recovery of a
\* session from the store is not part of this model): the timer is cleared,
\* then the voice channel is deleted and the announcement edited
handleEndLfgCommand(u) ==
    /\ Accepted
    /\ CanSpawn
    /\ LET sid == Find(activeSessions, LAMBDA k : sessions[k].creator = u) IN
       /\ sid # 0
       /\ timers' = clearTimeout(timers, sessions[sid].timeoutId)
       /\ sessions' = [sessions EXCEPT ![sid].timeoutId = NoTimer]
       /\ Move(New, Task("end_del", u, sid, 0, <<>>, "", TRUE))
    /\ UNCHANGED <<now, activeSessions, userCreatedSessions, dbSessions, nextSid,
                   voiceChannels, permissionOverwrites, dbUserSessions,
                   voiceChannelOperations>>

\* the session leaves the Maps; storage.deleteSession is called
EndDel(t) ==
    /\ t.pc = "end_del"
    /\ voiceChannels' = voiceChannels \ {t.sid}
    /\ permissionOverwrites' = channelDeleted(permissionOverwrites, t.sid)
    /\ activeSessions' = mapDelete(activeSessions, t.sid)
    /\ userCreatedSessions' =
           [userCreatedSessions EXCEPT ![sessions[t.sid].creator] = 0]
    /\ Goto(t, "end_db")
    /\ UNCHANGED <<now, sessions, dbSessions, timers, nextSid, requests,
                   dbUserSessions,
                   voiceChannelOperations>>

\* storage.deleteSession returned
EndDb(t) ==
    /\ t.pc = "end_db"
    /\ dbSessions' = deleteSession(dbSessions, t.sid)
    /\ Done({t})
    /\ UNCHANGED <<now, sessions, activeSessions, userCreatedSessions,
                   timers, nextSid, requests,
                   voiceChannels, permissionOverwrites, dbUserSessions,
                   voiceChannelOperations>>

\* ---------------------------------------------------------- loadSessionData
\* every active row, expired or not
RestorableExpiredToo(db) == getAllActiveSessions(db, MaxSessions)

\* the rows loadSessionData restores: active and not expired
Restorable(db) ==
    SelectSeq(getAllActiveSessions(db, MaxSessions),
              LAMBDA s : db[s].expiresAt > now)

\* "convert database session to memory format"; the timer that
\* loadSessionData schedules calls expireSession when the row expires
restoredSession(row, sid) ==
    [creator |-> row.creatorId, playersNeeded |-> row.playersNeeded,
     status |-> row.status, currentPlayers |-> row.currentPlayers,
     confirmedPlayers |-> row.confirmedPlayers,
     confirmationStartTime |-> row.confirmationStartTime,
     createdAt |-> row.expiresAt - ExpiresAfter,
     timeoutId |-> [kind |-> "restored", sid |-> sid, due |-> row.expiresAt]]

\* userCreatedSessions.set(creatorId, id) for the rows in order: the last
\* row of a creator stays
RECURSIVE restoredIndex(_, _, _)
restoredIndex(db, rows, index) ==
    IF rows = <<>> THEN index
    ELSE restoredIndex(db, Tail(rows),
                       [index EXCEPT ![db[Head(rows)].creatorId] = Head(rows)])

\* the process is restarted: the handlers in flight and the pending
\* callbacks are gone, and loadSessionData rebuilds the Maps from the store;
\* the rows that have expired are deleted
Restart ==
    /\ Accepted
    /\ LET rows == Restorable(dbSessions) IN
       /\ sessions' = [s \in Sids |->
              IF Includes(rows, s) THEN restoredSession(dbSessions[s], s)
              ELSE NoSession]
       /\ activeSessions' = rows
       /\ userCreatedSessions' = restoredIndex(dbSessions, rows, [u \in Users |-> 0])
       /\ timers' = {restoredSession(dbSessions[s], s).timeoutId : s \in Elems(rows)}
       /\ dbSessions' = [s \in Sids |->
              IF dbSessions[s].exists /\ dbSessions[s].isActive /\ ~Includes(rows, s)
              THEN Inactive ELSE dbSessions[s]]
    /\ tasks' = {}
    /\ voiceChannelOperations' = {}
    /\ UNCHANGED <<now, nextSid, voiceChannels, permissionOverwrites, dbUserSessions>>

\* the callback scheduled by loadSessionData
RestoredTimerFires(tm) ==
    /\ tm \in timers /\ tm.kind = "restored" /\ tm.due <= now
    /\ timers' = timers \ {tm}
    /\ IF mapHas(activeSessions, tm.sid)
       THEN /\ CanRun
            /\ Move(New, Task("exp_voice", 0, tm.sid, 0, <<>>, "", TRUE))
       ELSE UNCHANGED tasks
    /\ UNCHANGED <<now, sessions, activeSessions, userCreatedSessions,
                   dbSessions, nextSid, requests, voiceChannels, permissionOverwrites, dbUserSessions,
                   voiceChannelOperations>>

\* ------------------------------------------------------------------ clock
\* the instants at which a timer becomes due or a comparison of the sweep
\* or of the store's cleanup changes
Instants ==
    {tm.due : tm \in timers}
    \cup {sessions[k].createdAt + twentyMinutes : k \in Elems(activeSessions)}
    \cup {sessions[k].confirmationStartTime + twoMinutes :
              k \in {x \in Elems(activeSessions) :
                         sessions[x].confirmationStartTime # 0}}
    \cup {dbSessions[s].expiresAt + 1 : s \in {x \in Sids : dbSessions[x].isActive}}

\* time passes, up to the next such instant.  The event loop runs a due
\* timer callback, and cron the sweep of a minute, before the next minute
\* starts
Tick ==
    /\ tasks = {}
    /\ \A tm \in timers : tm.due > now
    /\ ~SweepDue
    /\ \E i \in Instants : i > now /\ i <= MaxTime
    /\ now' = MinOf({i \in Instants : i > now})
    /\ UNCHANGED <<sessions, activeSessions, userCreatedSessions, dbSessions,
                   timers, tasks, nextSid, requests,
                   voiceChannels, permissionOverwrites, dbUserSessions,
                   voiceChannelOperations>>

\* ------------------------------------------------------------------- Next
\* Discord user ids are only ever compared for equality, so users the state
\* does not mention are interchangeable: of those, the one with the least
\* id stands for all of them
Known ==
    {u \in Users :
        \/ userCreatedSessions[u] # 0
        \/ \E s \in Sids : \/ sessions[s].creator = u
                           \/ Includes(sessions[s].currentPlayers, u)
                           \/ Includes(sessions[s].confirmedPlayers, u)
                           \/ Includes(dbSessions[s].currentPlayers, u)
                           \/ dbSessions[s].creatorId = u
        \/ dbUserSessions[u] # 0
        \/ \E t \in tasks : t.user = u \/ (t.pc = "decline_cloop" /\ t.n = u)}

Eligible ==
    IF requests < MaxRequests
    THEN Known \cup (IF Users \ Known = {} THEN {} ELSE {MinOf(Users \ Known)})
    ELSE {}

Request ==
    \/ \E u \in Eligible, players \in Capacities, ok \in BOOLEAN,
          fails \in FailPoints :
           handleLfgCommand(u, players, ok, fails)
    \/ \E u \in Eligible, sid \in Sids : handleJoinLfg(u, sid)
    \/ \E u \in Eligible, sid \in Sids : handleConfirmation(u, sid)
    \/ \E u \in Eligible, sid \in Sids : handleDecline(u, sid)
    \/ \E u \in Eligible, sid \in Sids : handleLeaveLfg(u, sid)
    \/ \E u \in Eligible : handleModCommand(u)
    \/ \E u \in Eligible : handleEndLfgCommand(u)

Resume ==
    \/ \E t \in tasks : LfgDbCheck(t)
    \/ \E t \in tasks : LfgDbCreate(t)
    \/ \E t \in tasks : LfgRegister(t)
    \/ \E t \in tasks : LfgReply(t)
    \/ \E t \in tasks : LfgUndoDb(t)
    \/ \E t \in tasks : LfgUndoVoice(t)
    \/ \E t \in tasks : JoinDb1(t)
    \/ \E t \in tasks : JoinUserSession(t)
    \/ \E t \in tasks : JoinGrant(t)
    \/ \E t \in tasks : JoinNotify(t)
    \/ \E t \in tasks : JoinDb3(t)
    \/ \E t \in tasks : DeclineCDel(t)
    \/ \E t \in tasks : DeclineCLoop(t)
    \/ \E t \in tasks : DeclineCDb(t)
    \/ \E t \in tasks : DeclineRevoke(t)
    \/ \E t \in tasks : ReopenDel(t)
    \/ \E t \in tasks : LeaveReplied(t)
    \/ \E t \in tasks : LeaveRevoke(t)
    \/ \E t \in tasks : LeaveDel(t)
    \/ \E t \in tasks : LeaveDbDel(t)
    \/ \E t \in tasks : CtRevoke(t)
    \/ \E t \in tasks : ExpVoice(t)
    \/ \E t \in tasks : ExpDb(t)
    \/ \E t \in tasks : CronConf(t)
    \/ \E t \in tasks : CronLfg(t)
    \/ \E t \in tasks : RmRevoke(t)
    \/ \E t \in tasks : RmDel(t)
    \/ \E t \in tasks : RmLoop(t)
    \/ \E t \in tasks : EndDel(t)
    \/ \E t \in tasks : EndDb(t)

Background ==
    \/ \E tm \in timers : RecruitTimerFires(tm)
    \/ \E tm \in timers : ConfirmTimerFires(tm)
    \/ \E tm \in timers : RestoredTimerFires(tm)
    \/ Restart
    \/ CronTick
    \/ SyncInterval
    \/ Tick

Next ==
    \/ Request
    \/ Resume
    \/ Background
    \/ Collect

Spec == Init /\ [][Next]_vars

\* ------------------------------------------- sessions that nobody joins
\* The runs in which sessions are created and left alone: no button is
\* pressed, no session is ended by a command, the external calls succeed and
\* the process keeps running.  Time is not capped here: it stops by itself
\* once the last session is gone.
LoneTick ==
    /\ tasks = {}
    /\ \A tm \in timers : tm.due > now
    /\ ~SweepDue
    /\ \E i \in Instants : i > now
    /\ now' = MinOf({i \in Instants : i > now})
    /\ UNCHANGED <<sessions, activeSessions, userCreatedSessions, dbSessions,
                   timers, tasks, nextSid, requests,
                   voiceChannels, permissionOverwrites, dbUserSessions,
                   voiceChannelOperations>>

LoneRequest ==
    \E u \in Eligible, players \in Capacities, ok \in BOOLEAN :
        handleLfgCommand(u, players, ok, "none")

\* what the event loop does by itself: awaited calls return, due callbacks
\* and the sweep run, time passes
LoneProgress ==
    \/ \E t \in tasks : LfgDbCheck(t)
    \/ \E t \in tasks : LfgDbCreate(t)
    \/ \E t \in tasks : LfgRegister(t)
    \/ \E t \in tasks : LfgReply(t)
    \/ \E t \in tasks : ExpVoice(t)
    \/ \E t \in tasks : ExpDb(t)
    \/ \E t \in tasks : CronLfg(t)
    \/ \E tm \in timers : RecruitTimerFires(tm)
    \/ CronTick
    \/ LoneTick

LoneNext ==
    \/ LoneRequest
    \/ LoneProgress
    \/ Collect

\* an awaited call returns, a due callback runs, the sweep runs every
\* minute and time passes
LoneSpec == Init /\ [][LoneNext]_vars /\ WF_vars(LoneProgress)

\* --------------------------------------------- the process keeps running
\* The runs without a restart: requests arrive during the first MaxTime
\* minutes, then the program is left to itself.  Time is not capped: it
\* stops by itself when no timer is pending and no comparison of the sweep
\* or of the store's cleanup can change any more.
RunningRequest ==
    /\ now <= MaxTime
    /\ Request

\* what the event loop does by itself: awaited calls return, due callbacks,
\* the sweep and the interval run, time passes
RunningProgress ==
    \/ Resume
    \/ \E tm \in timers : RecruitTimerFires(tm)
    \/ \E tm \in timers : ConfirmTimerFires(tm)
    \/ CronTick
    \/ SyncInterval
    \/ LoneTick

RunningNext ==
    \/ RunningRequest
    \/ RunningProgress
    \/ Collect

RunningSpec == Init /\ [][RunningNext]_vars /\ WF_vars(RunningProgress)

\* ------------------------------------------------------------- the Guard
\* safeDeleteVoiceChannel and manageVoiceChannelAccess by themselves, called
\* at any moment for one voice channel, with external calls that take any
\* time, and the interval that drops the stale keys, for the first
\* GuardMaxTime minutes of the process.  A call in flight is a task: n
\* numbers the calls, list holds the time of the call, st the action.
GuardInit ==
    /\ Init!1 /\ Init!2 /\ Init!3 /\ Init!4 /\ Init!5
    /\ timers = {[kind |-> "interval", sid |-> 0, due |-> 1 + SyncPeriod]}
    /\ tasks = {}
    /\ nextSid = 1
    /\ requests = 0
    /\ voiceChannels = {1}
    /\ dbUserSessions = [u \in Users |-> 0]
    /\ voiceChannelOperations = {}
    /\ permissionOverwrites = {}

\* the key a call in flight was made with
guardKey(t) ==
    IF t.pc = "guard_delete" THEN opKey("delete", t.sid, 0)
    ELSE opKey("permission", t.sid, t.user)

\* the function is entered with operationKey: a key that is registered
\* makes it return false; otherwise the key is registered and the
\* external call is awaited
guardEnter(pc, user, channel, action, operationKey) ==
    /\ requests < MaxRequests
    /\ Cardinality(tasks) < MaxTasks
    /\ requests' = requests + 1
    /\ IF opsHas(voiceChannelOperations, operationKey)
       THEN UNCHANGED <<tasks, voiceChannelOperations>>
       ELSE /\ voiceChannelOperations' =
                   opsSet(voiceChannelOperations, operationKey)
            /\ Move(New, Task(pc, user, channel, requests + 1, <<now>>, action, TRUE))
    /\ UNCHANGED <<now, sessions, activeSessions, userCreatedSessions,
                   dbSessions, timers, nextSid, voiceChannels, permissionOverwrites, dbUserSessions>>

manageVoiceChannelAccess(channel, user, action) ==
    guardEnter("guard_access", user, channel, action,
               opKey("permission", channel, user))

safeDeleteVoiceChannel(channel) ==
    guardEnter("guard_delete", 0, channel, "delete", opKey("delete", channel, 0))

\* the permission edit (grant) or delete (revoke) returned, or threw
\* because the channel is gone: finally
AccessReturns(t) ==
    /\ t.pc = "guard_access"
    /\ voiceChannelOperations' = opsDelete(voiceChannelOperations, guardKey(t))
    /\ permissionOverwrites' =
           IF t.sid \notin voiceChannels THEN permissionOverwrites
           ELSE IF t.st = "grant"
                THEN overwritesEdit(permissionOverwrites, t.sid, t.user)
                ELSE overwritesDelete(permissionOverwrites, t.sid, t.user)
    /\ Done({t})
    /\ UNCHANGED <<now, sessions, activeSessions, userCreatedSessions,
                   dbSessions, timers, nextSid, requests, voiceChannels,
                   dbUserSessions>>

\* the channel was deleted (ok), or it was gone, or a call threw: finally
DeleteReturns(t, ok) ==
    /\ t.pc = "guard_delete"
    /\ voiceChannels' = IF ok THEN voiceChannels \ {t.sid} ELSE voiceChannels
    /\ permissionOverwrites' =
           IF ok THEN channelDeleted(permissionOverwrites, t.sid)
           ELSE permissionOverwrites
    /\ voiceChannelOperations' = opsDelete(voiceChannelOperations, guardKey(t))
    /\ Done({t})
    /\ UNCHANGED <<now, sessions, activeSessions, userCreatedSessions,
                   dbSessions, timers, nextSid, requests, dbUserSessions>>

\* the callback of the interval, every 5 minutes
GuardInterval(tm) ==
    /\ tm.kind = "interval"
    /\ tm.due <= now
    /\ voiceChannelOperations' = opsCleanup(voiceChannelOperations)
    /\ timers' = (timers \ {tm}) \cup {[tm EXCEPT !.due = tm.due + SyncPeriod]}
    /\ UNCHANGED <<now, sessions, activeSessions, userCreatedSessions,
                   dbSessions, tasks, nextSid, requests, voiceChannels, permissionOverwrites,
                   dbUserSessions>>

\* a minute passes, once the interval that is due has run
GuardTick ==
    /\ now < GuardMaxTime
    /\ \A tm \in timers : tm.due > now
    /\ now' = now + 1
    /\ UNCHANGED <<sessions, activeSessions, userCreatedSessions, dbSessions,
                   timers, tasks, nextSid, requests, voiceChannels, permissionOverwrites,
                   dbUserSessions, voiceChannelOperations>>

GuardNext ==
    \/ \E c \in voiceChannels, u \in Users, action \in {"grant", "revoke"} :
           manageVoiceChannelAccess(c, u, action)
    \/ \E c \in voiceChannels : safeDeleteVoiceChannel(c)
    \/ \E t \in tasks : AccessReturns(t)
    \/ \E t \in tasks, ok \in BOOLEAN : DeleteReturns(t, ok)
    \/ \E tm \in timers : GuardInterval(tm)
    \/ GuardTick

GuardSpec == GuardInit /\ [][GuardNext]_vars

TypeOK ==
    /\ now \in 1..MaxTime
    /\ nextSid \in 1..(MaxSessions + 1)
    /\ requests \in 0..MaxRequests
    /\ Elems(activeSessions) \subseteq Sids
    /\ Cardinality(tasks) <= MaxTasks
    /\ voiceChannels \subseteq Sids
    /\ permissionOverwrites \subseteq voiceChannels \X Users
    /\ \A u \in Users : dbUserSessions[u] \in 0..MaxSessions
    /\ \A e \in voiceChannelOperations :
           e.key.channel \in Sids /\ e.at \in 1..MaxTime

\* ----------------------------------------------------------- properties
\* the sessions held in the activeSessions Map
Registry == Elems(activeSessions)

\* no handler, callback or sweep is suspended at an await
Idle == tasks = {}

\* the registered sessions whose currentPlayers list user u
SessionsOf(u) == {s \in Registry : Includes(sessions[s].currentPlayers, u)}

\* the registered sessions created by user u
CreatedBy(u) == {s \in Registry : sessions[s].creator = u}

\* C1: a join appends its user only to a session with an open slot, so the
\* list it leaves is within the capacity: of two joins that race for the
\* last slot, the one handled first appends and the other is refused as full
C1_JoinStep ==
    \A u \in Users, sid \in Sids :
        handleJoinLfg(u, sid)
            => /\ Len(sessions[sid].currentPlayers) < sessions[sid].playersNeeded
               /\ sessions'[sid].currentPlayers =
                      Append(sessions[sid].currentPlayers, u)
               /\ Len(sessions'[sid].currentPlayers) <= sessions[sid].playersNeeded

C1_JoinWithinCapacity == [][C1_JoinStep]_vars

\* a join has taken the last slot and is suspended at its first await, and
\* the join of another user, who is in no session, is refused
C1_Witness ==
    \E s \in Registry, t \in tasks, u \in Users :
        /\ t.pc = "join_db1" /\ t.sid = s /\ t.user # u
        /\ Len(sessions[s].currentPlayers) = sessions[s].playersNeeded
        /\ SessionsOf(u) = {}
        /\ JoinRejected(u, s)

\* C2: no user is listed in the currentPlayers of two registered sessions
C2_OneSessionPerUser ==
    \A u \in Users : Cardinality(SessionsOf(u)) <= 1

\* C3: no user is the creator of two registered sessions
C3_OneSessionPerCreator ==
    \A u \in Users : Cardinality(CreatedBy(u)) <= 1

\* C4: with no handler in flight, a confirming session is full
C4_ConfirmingIsFull ==
    Idle => \A s \in Registry :
                sessions[s].status = "confirming"
                    => Len(sessions[s].currentPlayers) = sessions[s].playersNeeded

\* C5: with no handler in flight, confirmationStartTime is set exactly in
\* the confirming sessions
C5_StartTimeIffConfirming ==
    Idle => \A s \in Registry :
                (sessions[s].confirmationStartTime # 0)
                    <=> (sessions[s].status = "confirming")

\* C6: every confirmed player is a current player
C6_ConfirmedAreCurrent ==
    \A s \in Registry :
        Elems(sessions[s].confirmedPlayers) \subseteq Elems(sessions[s].currentPlayers)

\* C7: in an active session every current player has confirmed
C7_ActiveAllConfirmed ==
    \A s \in Registry :
        sessions[s].status = "active"
            => Len(sessions[s].confirmedPlayers) = Len(sessions[s].currentPlayers)

\* C8: with no handler in flight, the creator of a registered session is
\* one of its current players
C8_CreatorIsPlayer ==
    Idle => \A s \in Registry :
                Includes(sessions[s].currentPlayers, sessions[s].creator)

\* the status changes the lifecycle allows for a session that stays
\* registered
Lifecycle ==
    {<<"waiting", "confirming">>, <<"confirming", "active">>,
     <<"confirming", "waiting">>}

\* C9: the status of a registered session changes only along the lifecycle,
\* and an active session keeps its status and its players
C9_Step ==
    \A s \in Registry \cap Elems(activeSessions') :
        /\ sessions'[s].status # sessions[s].status
               => <<sessions[s].status, sessions'[s].status>> \in Lifecycle
        /\ sessions[s].status = "active"
               => /\ sessions'[s].status = "active"
                  /\ sessions'[s].currentPlayers = sessions[s].currentPlayers
                  /\ sessions'[s].confirmedPlayers = sessions[s].confirmedPlayers

C9_StatusLifecycle == [][C9_Step]_vars

\* C10: a session whose players have all confirmed has left the Map and the
\* creator index once the confirming handler is done
C10_ActiveLeavesRegistry ==
    Idle => \A s \in Sids :
                sessions[s].status = "active"
                    => /\ s \notin Registry
                       /\ userCreatedSessions[sessions[s].creator] # s

\* what the confirmation timeout is to leave of session s, given the
\* confirmedPlayers it found
TimedOut(s, confirmedBefore) ==
    /\ Elems(sessions'[s].currentPlayers) =
           {sessions[s].creator} \cup Elems(confirmedBefore)
    /\ Cardinality(Elems(sessions'[s].currentPlayers)) =
           Len(sessions'[s].currentPlayers)
    /\ sessions'[s].confirmedPlayers = <<>>
    /\ sessions'[s].status = "waiting"
    /\ sessions'[s].confirmationStartTime = 0

\* C11: when handleConfirmationTimeout has run on a confirming session, the
\* session lists its creator and the players that had confirmed when the
\* timeout began, each once, has no confirmed players, is waiting and has no
\* confirmation start time; the players whose access is removed are the
\* current players that had not confirmed
C11_Step ==
    /\ \A t \in tasks :
           CtRevoke(t) => TimedOut(t.sid, t.seen[2])
    /\ \A tm \in timers :
           (ConfirmTimerFires(tm) /\ ctApplies(tm.sid)
                                 /\ ~ctSuspends(sessions[tm.sid]))
               => TimedOut(tm.sid, sessions[tm.sid].confirmedPlayers)

C11_TimeoutEffect == [][C11_Step]_vars

\* the players and the status of a session object
Membership(session) ==
    <<session.currentPlayers, session.confirmedPlayers, session.status>>

\* two invocations of handleConfirmationTimeout are suspended on one
\* session and one of them finishes: the other then leaves the players and
\* the status as the first left them
C12_ConfirmationStep ==
    \A t1 \in tasks, t2 \in tasks :
        (/\ t1 # t2 /\ t2.pc = "ct_revoke" /\ t2.sid = t1.sid
         /\ CtRevoke(t1))
            => Membership(ctKeep(sessions'[t1.sid])) = Membership(sessions'[t1.sid])

\* an expireSession resumes once its session has left the Map: the Map and
\* the creator index stay as they are
C12_ExpireStep ==
    \A t \in tasks :
        (ExpVoice(t) /\ ~mapHas(activeSessions, t.sid))
            => /\ activeSessions' = activeSessions
               /\ userCreatedSessions' = userCreatedSessions

\* C12: a second invocation of a timeout on the same session changes
\* nothing, for handleConfirmationTimeout and for expireSession, the second
\* invocation starting while the first is suspended included
C12_SecondTimeoutIsNoOp == [][C12_ConfirmationStep /\ C12_ExpireStep]_vars

\* session k is confirming and the confirmation window, the delay of the
\* confirmation timer, has passed since its confirmationStartTime
WindowElapsed(k) ==
    /\ sessions[k].status = "confirming"
    /\ sessions[k].confirmationStartTime # 0
    /\ now - sessions[k].confirmationStartTime >= ConfirmTimerDelay

\* the session the sweep calls handleConfirmationTimeout for, having passed
\* the keys in passed (0: none)
SweptNext(passed) == NextKey(activeSessions, passed, confirmationExpired)

\* C13: handleConfirmationTimeout goes to work on a session, and writes its
\* result, only while the session is confirming and the confirmation window
\* has passed since the confirmationStartTime of its current phase, be it
\* called by a timer callback, of this phase or of an earlier one, or by the
\* sweep
C13_Step ==
    /\ \A tm \in timers :
           (ConfirmTimerFires(tm) /\ ctApplies(tm.sid)) => WindowElapsed(tm.sid)
    /\ (CronTick /\ SweptNext(<<>>) # 0) => WindowElapsed(SweptNext(<<>>))
    /\ \A t \in tasks :
           (CronConf(t) /\ SweptNext(t.list) # 0) => WindowElapsed(SweptNext(t.list))
    /\ \A t \in tasks : CtRevoke(t) => WindowElapsed(t.sid)

C13_TimeoutAfterWindow == [][C13_Step]_vars

\* the pending callbacks of one kind scheduled for session s
Pending(kind, s) == {tm \in timers : tm.kind = kind /\ tm.sid = s}

\* C14: with no handler in flight, a registered waiting session with a
\* single member has exactly one pending recruitment timer, a confirming one
\* exactly one pending confirmation timer, and no session has both
C14_TimersMatchStatus ==
    Idle => \A s \in Registry :
                /\ (sessions[s].status = "waiting"
                        /\ Len(sessions[s].currentPlayers) = 1)
                       => Cardinality(Pending("recruit", s)) = 1
                /\ sessions[s].status = "confirming"
                       => Cardinality(Pending("confirm", s)) = 1
                /\ Pending("recruit", s) = {} \/ Pending("confirm", s) = {}

\* session k is waiting with a single member
AloneAndWaiting(k) ==
    /\ sessions[k].status = "waiting"
    /\ Len(sessions[k].currentPlayers) = 1

\* C15: the 20 minute expiry goes to work on a session, and removes it,
\* only while the session is waiting with a single member, be it called by
\* the timer of handleLfgCommand, by the timer of loadSessionData or by the
\* sweep
C15_Step ==
    /\ \A t \in tasks' \ tasks :
           (t.pc = "exp_voice" /\ mapHas(activeSessions, t.sid))
               => AloneAndWaiting(t.sid)
    /\ \A t \in tasks :
           (ExpVoice(t) /\ mapHas(activeSessions, t.sid))
               => AloneAndWaiting(t.sid)

C15_ExpiryOnlyWhenAlone == [][C15_Step]_vars

\* session s is registered and its creation has returned
Created(s) ==
    /\ s \in Registry
    /\ \A t \in tasks : t.sid = s => t.pc \notin {"lfg_reply"}

\* nothing is left of session s: no voice channel, no entry in the Map or
\* in the creator index, no active row and no membership row
Destroyed(s) ==
    /\ s \notin voiceChannels
    /\ s \notin Registry
    /\ \A u \in Users : userCreatedSessions[u] # s /\ dbUserSessions[u] # s
    /\ ~(dbSessions[s].exists /\ dbSessions[s].isActive)

\* C16: a session that is created and that nobody joins is destroyed in the
\* end, once its 20 minutes have passed: voice channel deleted, out of the
\* Map and of the creator index, row inactive, membership row deleted
C16_LoneSessionExpires ==
    \A s \in Sids : Created(s) ~> Destroyed(s)

\* a session has been created, its 20 minutes have passed and nothing is
\* left of it
C16_Witness ==
    \E s \in Sids :
        /\ dbSessions[s] = Inactive
        /\ Destroyed(s)
        /\ now >= 1 + twentyMinutes
        /\ tasks = {}

\* C17: when a /lfg command whose createSession, createUserSession or
\* editReply threw returns, the voice channel it had created is deleted and
\* nothing is left of the session: it is not in the Map, the creator index
\* does not hold it, its row is not active and no timer is pending for it
C17_Step ==
    \A t \in tasks :
        LfgUndoVoice(t) =>
            /\ t.sid \notin voiceChannels'
            /\ ~mapHas(activeSessions', t.sid)
            /\ userCreatedSessions'[t.user] # t.sid
            /\ ~(dbSessions'[t.sid].exists /\ dbSessions'[t.sid].isActive)
            /\ \A tm \in timers' : tm.sid # t.sid

C17_CreateRollback == [][C17_Step]_vars

\* C18: when the Decline of a player who is not the creator returns on a
\* confirming session, the player is in neither list, no confirmation
\* timer is pending for the session, confirmationStartTime is null and
\* the status is waiting
C18_Step ==
    \A t \in tasks :
        (/\ DeclineRevoke(t)
         /\ sessions[t.sid].status = "confirming"
         /\ Len(sessions[t.sid].currentPlayers) > 0)
        => /\ ~Includes(sessions'[t.sid].currentPlayers, t.user)
           /\ ~Includes(sessions'[t.sid].confirmedPlayers, t.user)
           /\ \A tm \in timers' : ~(tm.kind = "confirm" /\ tm.sid = t.sid)
           /\ sessions'[t.sid].confirmationStartTime = 0
           /\ sessions'[t.sid].status = "waiting"

C18_PlayerDecline == [][C18_Step]_vars

\* C19: when the creator's Decline or /endlfg returns, no timer is pending
\* for the session, its voice channel is deleted, it is in neither Map,
\* its row is inactive and no player of the session has a membership row
\* for it: /endlfg leaves what the creator's Decline leaves
C19_Step ==
    \A t \in tasks :
        (DeclineCDb(t) \/ EndDb(t)) =>
            /\ \A tm \in timers' : tm.sid # t.sid
            /\ t.sid \notin voiceChannels'
            /\ ~mapHas(activeSessions', t.sid)
            /\ \A u \in Users : userCreatedSessions'[u] # t.sid
            /\ ~(dbSessions'[t.sid].exists /\ dbSessions'[t.sid].isActive)
            /\ \A u \in Users :
                   Includes(sessions[t.sid].currentPlayers, u)
                   => dbUserSessions'[u] # t.sid

C19_CreatorTeardown == [][C19_Step]_vars

\* C20: once the handlers have returned, the active row of every session
\* of the Map holds the session's currentPlayers, confirmedPlayers and
\* status, so that a restart restores the members the session has
C20_StoreMatchesRegistry ==
    Idle =>
        \A s \in Registry :
            (dbSessions[s].exists /\ dbSessions[s].isActive) =>
                /\ dbSessions[s].currentPlayers = sessions[s].currentPlayers
                /\ dbSessions[s].confirmedPlayers = sessions[s].confirmedPlayers
                /\ dbSessions[s].status = sessions[s].status

\* the row of session s is active
RowActive(db, s) == db[s].exists /\ db[s].isActive

\* C21: when a path that destroys a session (the creator's Decline,
\* /endlfg, expireSession, a Leave or a reopenLfg that finds no player, a
\* moderation that ends the session) is done with it, the session's row is
\* inactive, so that a restart does not restore it
C21_Step ==
    \A t \in tasks :
        (\/ DeclineCDb(t) \/ EndDb(t) \/ ExpDb(t)
         \/ LeaveDbDel(t) \/ ReopenDel(t) \/ RmDel(t))
        => ~RowActive(dbSessions', t.sid)

C21_DestroyedIsInactive == [][C21_Step]_vars

\* C22: a Join appends the user only to a session whose status is waiting
\* at that moment, also while a Decline, a Leave or a moderation of that
\* session is suspended between the removal of its member and reopenLfg
C22_Step ==
    \A u \in Users, sid \in Sids :
        handleJoinLfg(u, sid) => sessions[sid].status = "waiting"

C22_JoinOnlyWhenWaiting == [][C22_Step]_vars

\* C23: a /lfg command that is refused (the user has a session already, the
\* channel is not the designated one, the game or the mode is invalid)
\* changes no session, neither Map and no row
C23_Step ==
    \A t \in tasks :
        (LfgDbCheck(t) /\ tasks' = tasks \ {t})
        => UNCHANGED <<sessions, activeSessions, userCreatedSessions,
                       dbSessions, dbUserSessions>>

C23_RejectedCreateChangesNothing == [][C23_Step]_vars

\* C24: the Leave of the creator is refused, so no Leave that is let in
\* is the creator's; the Leave of another member removes the user from
\* currentPlayers and confirmedPlayers, and a session it has emptied is
\* not reopened but destroyed: voice channel deleted, out of the Map, row
\* inactive
C24_Step ==
    /\ \A u \in Users, sid \in Sids :
           handleLeaveLfg(u, sid) => u # sessions[sid].creator
    /\ \A t \in tasks :
           LeaveReplied(t) =>
               /\ ~Includes(sessions'[t.sid].currentPlayers, t.user)
               /\ ~Includes(sessions'[t.sid].confirmedPlayers, t.user)
    /\ \A t \in tasks :
           (LeaveRevoke(t) /\ Len(sessions[t.sid].currentPlayers) = 0) =>
               /\ sessions' = sessions
               /\ \E t2 \in tasks' : t2.pc = "leave_del" /\ t2.sid = t.sid
    /\ \A t \in tasks :
           LeaveDbDel(t) =>
               /\ t.sid \notin voiceChannels'
               /\ ~mapHas(activeSessions', t.sid)
               /\ ~RowActive(dbSessions', t.sid)

C24_LeaveContract == [][C24_Step]_vars

\* a Leave has emptied a session and is about to destroy it
C24_Witness ==
    \E t \in tasks : t.pc = "leave_del" /\ sessions[t.sid].currentPlayers = <<>>

\* C25: the Confirm of a user who is in confirmedPlayers already is
\* answered without any change, so no Confirm that is let in is a second
\* one of its user and confirmedPlayers never lists a user twice: one user
\* confirming again and again does not complete the team
C25_Step ==
    /\ \A u \in Users, sid \in Sids :
           handleConfirmation(u, sid) =>
               /\ ~Includes(sessions[sid].confirmedPlayers, u)
               /\ sessions'[sid].confirmedPlayers =
                      Append(sessions[sid].confirmedPlayers, u)
    /\ \A sid \in Sids :
           Unique(sessions'[sid].confirmedPlayers) = sessions'[sid].confirmedPlayers

C25_ConfirmOnce == [][C25_Step]_vars

\* a user of a team that is still confirming has confirmed, and a second
\* Confirm of that user is refused
C25_Witness ==
    \E s \in Registry, u \in Users :
        /\ sessions[s].status = "confirming"
        /\ Includes(sessions[s].confirmedPlayers, u)
        /\ Len(sessions[s].confirmedPlayers) < Len(sessions[s].currentPlayers)
        /\ ConfirmRejected(u, s)

\* the handlers suspended at voiceChannel.delete() of session s
Deleting(s) ==
    {t \in tasks : t.sid = s /\ t.pc \in {"exp_voice", "decline_cdel", "end_del",
                                          "leave_del", "rm_del", "reopen_del"}}

\* the handlers suspended at a permissionOverwrites edit or delete on the
\* voice channel of session s
ChangingAccess(s) ==
    {t \in tasks : t.sid = s /\ \/ t.pc \in {"join_grant", "decline_revoke",
                                             "ct_revoke", "rm_revoke"}
                                \/ t.pc = "leave_revoke" /\ t.st = "guard"}

\* C27: a handler awaits the deletion of a voice channel, or a change of
\* the access to it, only while a key of that channel is registered in
\* voiceChannelOperations, so that no two deletions of one voice channel
\* are awaited together
C27_RequestsAreGuarded ==
    \A s \in Sids :
        /\ Deleting(s) # {} =>
               opsHas(voiceChannelOperations, opKey("delete", s, 0))
        /\ ChangingAccess(s) # {} =>
               \E e \in voiceChannelOperations :
                   e.key.op = "permission" /\ e.key.channel = s
        /\ Cardinality(Deleting(s)) <= 1

\* the calls in flight that registered key and are younger than the
\* staleness window
YoungHolders(key) ==
    {t \in tasks : /\ t.pc \in {"guard_access", "guard_delete"}
                   /\ guardKey(t) = key
                   /\ Millis(now - t.list[1]) <= staleAfter}

\* C26: at most one guarded operation per key is in flight: while a call of
\* safeDeleteVoiceChannel or manageVoiceChannelAccess that is younger than
\* 30 seconds awaits its external call, a second call with the same key
\* returns false and requests nothing
C26_OnePerKey ==
    \A t \in tasks :
        t.pc \in {"guard_access", "guard_delete"}
        => Cardinality(YoungHolders(guardKey(t))) <= 1

C28_Step ==
    /\ \A t \in tasks :
           (AccessReturns(t) \/ \E ok \in BOOLEAN : DeleteReturns(t, ok))
           => ~opsHas(voiceChannelOperations', guardKey(t))
    /\ \A e \in voiceChannelOperations' : Millis(now' - e.at) <= staleAfter

\* C28: a key is deleted when its operation returns, whether it succeeded
\* or failed, and no key stays registered for more than 30 seconds
C28_KeysAreReleased == [][C28_Step]_vars

\* the positions of a handler or callback between its first read of the
\* session and its last write to it
Midway ==
    {"join_db1", "join_usersession", "join_grant", "decline_revoke",
     "ct_revoke", "leave_revoke"}

C29_Step ==
    \A t \in tasks \cap tasks' :
        t.pc \in Midway
        => /\ sessions'[t.sid] = sessions[t.sid]
           /\ \A other \in tasks' \ tasks : other.sid # t.sid

\* C29: the transitions on one session exclude each other: while a handler
\* or callback is suspended between its first read of a session and its
\* last write to it, no other handler, callback or sweep starts or
\* continues on that session or changes it
C29_SessionTransitionsExclusive == [][C29_Step]_vars

\* the rows that loadSessionData finds expired
ExpiredAtLoad == {s \in Sids : RowActive(dbSessions, s) /\ dbSessions[s].expiresAt <= now}

C30_Step ==
    Restart
    => \A s \in ExpiredAtLoad :
           /\ ~mapHas(activeSessions', s)
           /\ \A u \in Users : userCreatedSessions'[u] # s
           /\ \A tm \in timers' : tm.sid # s
           /\ ~RowActive(dbSessions', s)

\* C30: loadSessionData does not restore a session whose expiresAt is past
\* when the rows are loaded: the session is in neither Map afterwards, no
\* timer is scheduled for it and its row is inactive
C30_ExpiredNotRestored == [][C30_Step]_vars

\* one session was created and the process was restarted when its row had
\* expired: the row is inactive and the session is gone, while its voice
\* channel and its membership row, which only expireSession deletes, are
\* still there
C30_Witness ==
    \E s \in Sids :
        /\ dbSessions[s] = Inactive
        /\ ~mapHas(activeSessions, s)
        /\ s \in voiceChannels
        /\ \E u \in Users : dbUserSessions[u] = s
        /\ tasks = {}
        /\ requests = 2 /\ nextSid = 2
        /\ now >= 1 + ExpiresAfter

C31_Step ==
    \A t \in tasks :
        /\ (RmDel(t) /\ sessions[t.sid].creator = t.user)
           => /\ t.sid \notin voiceChannels'
              /\ ~mapHas(activeSessions', t.sid)
              /\ \A u \in Users : userCreatedSessions'[u] # t.sid
              /\ ~RowActive(dbSessions', t.sid)
        /\ (RmRevoke(t) /\ sessions[t.sid].creator # t.user
                        /\ Len(sessions[t.sid].currentPlayers) > 0)
           => /\ ~Includes(sessions'[t.sid].currentPlayers, t.user)
              /\ ~Includes(sessions'[t.sid].confirmedPlayers, t.user)
              /\ sessions'[t.sid].status = "waiting"
              /\ mapHas(activeSessions', t.sid)

\* C31: removing the creator by moderation ends the session: its voice
\* channel is deleted, the session leaves both Maps and its row is
\* inactive; removing another member leaves the session as that member's
\* Leave would: without the member in either list, and waiting
C31_RemoveMemberContract == [][C31_Step]_vars

Confirming(s) == mapHas(activeSessions, s) /\ sessions[s].status = "confirming"

Settled(s) == \A t \in tasks : t.sid # s /\ t.st # "cron" /\ t.pc # "rm"

\* C33: no session is left full without being in its confirmation phase:
\* with no handler or callback suspended on a session of activeSessions,
\* a currentPlayers of playersNeeded members means status confirming or
\* active
C33_FullIsConfirming ==
    \A s \in Registry :
        (Settled(s) /\ Len(sessions[s].currentPlayers) = sessions[s].playersNeeded)
        => sessions[s].status \in {"confirming", "active"}

C34_Step ==
    \A s \in Sids :
        (sessions'[s].status = "active" /\ sessions[s].status # "active")
        => /\ Len(sessions'[s].currentPlayers) = sessions'[s].playersNeeded
           /\ \A i \in 1..Len(sessions'[s].currentPlayers) :
                  Includes(sessions'[s].confirmedPlayers,
                           sessions'[s].currentPlayers[i])

\* C34: the status of a session becomes active only with a currentPlayers
\* of playersNeeded members who have all confirmed, also when the Confirm
\* arrives while a Decline, Leave or removal has filtered its member out
\* and has not yet reopened the session
C34_ActiveOnlyWhenFullAndConfirmed == [][C34_Step]_vars

C35_Step ==
    \A s \in Sids :
        (sessions'[s].status = "confirming" /\ sessions[s].status # "confirming")
        => sessions'[s].confirmedPlayers = <<>>

\* C35: when a session enters its confirmation phase nobody has confirmed
\* yet: the confirmations of an earlier phase that a Decline, a Leave or a
\* removal ended are not carried over
C35_PhaseStartsUnconfirmed == [][C35_Step]_vars

C36_Step ==
    \A t \in tasks :
        (CtRevoke(t) /\ t.sid \in voiceChannels)
        => \A u \in Elems(Revoked(t)) :
               ~Includes(sessions'[t.sid].currentPlayers, u)

\* C36: handleConfirmationTimeout removes the voice channel access of
\* nobody who is a player of the session when it has finished: a creator
\* who had not confirmed stays a player and keeps the access
C36_TimeoutRevokesOnlyRemoved == [][C36_Step]_vars

\* C37: with no handler or callback suspended on a session, only its
\* players have access to its voice channel: a user who is not in
\* currentPlayers has no permission overwrite on the channel
C37_AccessOnlyForPlayers ==
    \A s \in Registry :
        Settled(s)
        => \A u \in Users :
               <<s, u>> \in permissionOverwrites
               => Includes(sessions[s].currentPlayers, u)

C38_Step ==
    /\ SyncInterval
       => \A s \in Registry :
              RowActive(dbSessions, s) => RowActive(dbSessions', s)
    /\ \A s \in Sids :
           (mapHas(activeSessions', s) /\ Settled(s)')
           => RowActive(dbSessions', s)

\* C38: every session of activeSessions has an active row: the cleanup of
\* the store that the interval runs never makes the row of such a session
\* inactive, also not when the session is older than 20 minutes
C38_RegistryRowsStayActive == [][C38_Step]_vars

====
